---- MODULE Spec2Model ----
(***************************************************************************)
(* Model of src/src/lib.rs: the State struct (surface configuration,       *)
(* clear color, active pipeline / index buffer), its methods new, resize,  *)
(* input, update and render, and the winit event-loop closure of run().    *)
(*                                                                         *)
(* The event loop is single threaded: every event is handled to completion *)
(* by one invocation of the closure, so each event is one action.  The     *)
(* program creates exactly one window, so every window event carries the   *)
(* id of state.window().                                                   *)
(***************************************************************************)
EXTENDS Integers, Sequences, FiniteSets, TLC

\* ---------------------------------------------------------------- bounds
\* window widths range over 0..MaxWidth, heights over 0..MaxHeight
MaxWidth == 2
MaxHeight == 1
\* a colour channel k stands for the real number k / ColorLevels, so
\* 0..ColorLevels-1 is the half-open interval [0,1) and ColorLevels is 1.0
ColorLevels == 1
\* longest list of surface formats the adapter reports
MaxFormats == 2
\* most key-repeat events delivered while the toggle key is held down
MaxRepeats == 1

\* ------------------------------------------------------------- constants
ToggleScancode == 57
\* the toggle key and one other key
Scancodes == { ToggleScancode, 1 }

Sizes == [width : 0..MaxWidth, height : 0..MaxHeight]
Channel == 0..(ColorLevels - 1)
ColorOne == ColorLevels

\* VERTICES: ten vertices, positions in hundredths
VERTICES ==
  << <<-50, -75, 0>>, <<50, -75, 0>>, <<75, 50, 0>>, <<0, 100, 0>>,
     <<-75, 50, 0>>, <<-30, 0, 0>>, <<0, -30, 0>>, <<30, 0, 0>>,
     <<25, 45, 0>>, <<-25, 45, 0>> >>

INDICES_PENTAGON == << 0, 1, 2,  0, 2, 3,  0, 3, 4 >>

INDICES_CHALLENGE == << 0, 7, 9,  5, 1, 8,  6, 2, 9,  5, 7, 3,  4, 6, 8 >>

\* the two pipelines differ by their fragment entry point; State::new
\* builds both for the format of the surface configuration
render_pipelines == << "fs_main", "fs_main2" >>

\* contents of the two index buffers
index_buffers == << INDICES_PENTAGON, INDICES_CHALLENGE >>

\* ------------------------------------------------------- surface formats
Formats == { "Bgra8Unorm", "Bgra8UnormSrgb" }

\* f.describe().srgb
srgb(f) == f \in { "Bgra8UnormSrgb", "Rgba8UnormSrgb" }

FormatLists == UNION { [1..n -> Formats] : n \in 1..MaxFormats }

PresentModes == { "Fifo" }
AlphaModes == { "Opaque" }

\* variant: the last sRGB format of the list is taken
surface_format_last_srgb(formats) ==
  LET s == SelectSeq(formats, srgb)
  IN  IF Len(s) > 0 THEN s[Len(s)] ELSE formats[1]

\* formats.iter().copied().filter(srgb).next().unwrap_or(formats[0])
surface_format(formats) ==
  LET s == SelectSeq(formats, srgb)
  IN  IF Len(s) > 0 THEN s[1] ELSE formats[1]

\* ------------------------------------------------------ outbound calls
Call(op, args) == [op |-> op, args |-> args]

HasCall(cs, op) == \E i \in 1..Len(cs) : cs[i].op = op

\* ------------------------------------------------------------ State::new
new(inner_size, caps) ==
  LET config == [ format       |-> surface_format(caps.formats),
                  width        |-> inner_size.width,
                  height       |-> inner_size.height,
                  present_mode |-> caps.present_modes[1],
                  alpha_mode   |-> caps.alpha_modes[1] ]
  IN  [ st |-> [ config |-> config,
                 size   |-> inner_size,
                 color  |-> [r |-> ColorOne, g |-> ColorOne,
                             b |-> ColorOne, a |-> ColorOne],
                 render_pipelines |->
                   [ i \in 1..Len(render_pipelines) |->
                       [ fragment |-> render_pipelines[i],
                         format   |-> config.format ] ],
                 render_pipeline_idx |-> 0,
                 index_buffer_idx    |-> 0,
                 num_indices         |-> Len(INDICES_PENTAGON) ],
        calls |-> << Call("configure", <<config.width, config.height>>) >> ]

\* --------------------------------------------------------- State::resize
\* variant: the guard written with || instead of &&
resize_either_positive(st, new_size) ==
  IF new_size.width > 0 \/ new_size.height > 0
  THEN LET st2 == [st EXCEPT !.size = new_size,
                             !.config.width = new_size.width,
                             !.config.height = new_size.height]
       IN  [ st |-> st2,
             calls |-> << Call("configure",
                               <<st2.config.width, st2.config.height>>) >> ]
  ELSE [ st |-> st, calls |-> << >> ]

\* variant: the stored size is updated but not the configuration
resize_size_only(st, new_size) ==
  IF new_size.width > 0 /\ new_size.height > 0
  THEN LET st2 == [st EXCEPT !.size = new_size]
       IN  [ st |-> st2,
             calls |-> << Call("configure",
                               <<st2.config.width, st2.config.height>>) >> ]
  ELSE [ st |-> st, calls |-> << >> ]

\* variant: the configuration is rebuilt with a fixed sRGB format
resize_rebuilds_config(st, new_size) ==
  IF new_size.width > 0 /\ new_size.height > 0
  THEN LET st2 == [st EXCEPT !.size = new_size,
                             !.config.format = "Bgra8UnormSrgb",
                             !.config.width = new_size.width,
                             !.config.height = new_size.height]
       IN  [ st |-> st2,
             calls |-> << Call("configure",
                               <<st2.config.width, st2.config.height>>) >> ]
  ELSE [ st |-> st, calls |-> << >> ]

\* variant: the configuration is updated but not the stored size
resize_config_only(st, new_size) ==
  IF new_size.width > 0 /\ new_size.height > 0
  THEN LET st2 == [st EXCEPT !.config.width = new_size.width,
                             !.config.height = new_size.height]
       IN  [ st |-> st2,
             calls |-> << Call("configure",
                               <<st2.config.width, st2.config.height>>) >> ]
  ELSE [ st |-> st, calls |-> << >> ]

resize(st, new_size) ==
  IF new_size.width > 0 /\ new_size.height > 0
  THEN LET st2 == [st EXCEPT !.size = new_size,
                             !.config.width = new_size.width,
                             !.config.height = new_size.height]
       IN  [ st |-> st2,
             calls |-> << Call("configure",
                               <<st2.config.width, st2.config.height>>) >> ]
  ELSE [ st |-> st, calls |-> << >> ]

\* ---------------------------------------------------------- State::input
\* variant: only the pipeline index is advanced
toggle_variant_pipeline_only(st) ==
  [st EXCEPT !.render_pipeline_idx = IF st.render_pipeline_idx > 0
                                     THEN 0 ELSE 1]

\* variant: the comparison is >= 0, which every usize satisfies
toggle_variant_never_flips(st) ==
  LET p == IF st.render_pipeline_idx >= 0 THEN 0 ELSE 1
      i == IF st.index_buffer_idx >= 0 THEN 0 ELSE 1
      n == IF i = 0 THEN Len(INDICES_PENTAGON) ELSE Len(INDICES_CHALLENGE)
  IN  [st EXCEPT !.render_pipeline_idx = p,
                 !.index_buffer_idx = i,
                 !.num_indices = n]

\* variant: the two index counts are exchanged
toggle_variant_counts_swapped(st) ==
  LET p == IF st.render_pipeline_idx > 0 THEN 0 ELSE 1
      i == IF st.index_buffer_idx > 0 THEN 0 ELSE 1
      n == IF i = 0 THEN Len(INDICES_CHALLENGE) ELSE Len(INDICES_PENTAGON)
  IN  [st EXCEPT !.render_pipeline_idx = p,
                 !.index_buffer_idx = i,
                 !.num_indices = n]

\* variant: the indices are incremented instead of flipped
toggle_variant_increments(st) ==
  LET p == st.render_pipeline_idx + 1
      i == st.index_buffer_idx + 1
      n == IF i = 0 THEN Len(INDICES_PENTAGON) ELSE Len(INDICES_CHALLENGE)
  IN  [st EXCEPT !.render_pipeline_idx = p,
                 !.index_buffer_idx = i,
                 !.num_indices = n]

\* the toggle-key arm
toggle_variant(st) ==
  LET p == IF st.render_pipeline_idx > 0 THEN 0 ELSE 1
      i == IF st.index_buffer_idx > 0 THEN 0 ELSE 1
      n == IF i = 0 THEN Len(INDICES_PENTAGON) ELSE Len(INDICES_CHALLENGE)
  IN  [st EXCEPT !.render_pipeline_idx = p,
                 !.index_buffer_idx = i,
                 !.num_indices = n]

\* variant: alpha is drawn like the other channels
randomize_color_random_alpha(st, rnd) ==
  [st EXCEPT !.color = [r |-> rnd[1], g |-> rnd[2], b |-> rnd[3],
                        a |-> rnd[1]]]

\* the pointer-button arm; rnd holds the three gen_range(0.0..1.0) draws
randomize_color(st, rnd) ==
  [st EXCEPT !.color = [r |-> rnd[1], g |-> rnd[2], b |-> rnd[3],
                        a |-> ColorOne]]

IsLeftPress(event) ==
  /\ event.type = "MouseInput"
  /\ event.button = "Left"
  /\ event.state = "Pressed"

IsTogglePress(event) ==
  /\ event.type = "KeyboardInput"
  /\ event.scancode = ToggleScancode
  /\ event.state = "Pressed"

\* variant: the key arm does not look at the element state
input_any_key_state(st, event, rnd) ==
  IF IsLeftPress(event)
  THEN [ st |-> randomize_color(st, rnd),
         calls |-> << Call("request_redraw", << >>) >>,
         consumed |-> TRUE ]
  ELSE IF event.type = "KeyboardInput" /\ event.scancode = ToggleScancode
  THEN [ st |-> toggle_variant(st), calls |-> << >>, consumed |-> TRUE ]
  ELSE [ st |-> st, calls |-> << >>, consumed |-> FALSE ]

input(st, event, rnd) ==
  IF IsLeftPress(event)
  THEN [ st |-> randomize_color(st, rnd),
         calls |-> << Call("request_redraw", << >>) >>,
         consumed |-> TRUE ]
  ELSE IF IsTogglePress(event)
  THEN [ st |-> toggle_variant(st), calls |-> << >>, consumed |-> TRUE ]
  ELSE [ st |-> st, calls |-> << >>, consumed |-> FALSE ]

\* --------------------------------------------------------- State::update
update(st) == st

\* --------------------------------------------------------- State::render
\* variant: the image is presented before the commands are submitted
render_present_before_submit(st, surf, acquire) ==
  LET get == Call("get_current_texture", <<surf.width, surf.height>>)
  IN  IF acquire # "Ok"
      THEN [ result |-> acquire, calls |-> << get >> ]
      ELSE [ result |-> "Ok",
             calls |->
               << get,
                  Call("create_view", << >>),
                  Call("create_command_encoder", << >>),
                  Call("begin_render_pass",
                       <<st.color.r, st.color.g, st.color.b, st.color.a>>),
                  Call("set_pipeline", <<st.render_pipeline_idx>>),
                  Call("set_bind_group", <<0>>),
                  Call("set_vertex_buffer", <<0>>),
                  Call("set_index_buffer", <<st.index_buffer_idx, 16>>),
                  Call("draw_indexed", <<0, st.num_indices, 0, 0, 1>>),
                  Call("drop_render_pass", << >>),
                  Call("present", << >>),
                  Call("finish", << >>),
                  Call("submit", << >>) >> ]

\* acquire is the outcome of surface.get_current_texture(); the acquired
\* image has the dimensions the surface was last configured with
render(st, surf, acquire) ==
  LET get == Call("get_current_texture", <<surf.width, surf.height>>)
  IN  IF acquire # "Ok"
      THEN [ result |-> acquire, calls |-> << get >> ]
      ELSE [ result |-> "Ok",
             calls |->
               << get,
                  Call("create_view", << >>),
                  Call("create_command_encoder", << >>),
                  Call("begin_render_pass",
                       <<st.color.r, st.color.g, st.color.b, st.color.a>>),
                  Call("set_pipeline", <<st.render_pipeline_idx>>),
                  Call("set_bind_group", <<0>>),
                  Call("set_vertex_buffer", <<0>>),
                  Call("set_index_buffer", <<st.index_buffer_idx, 16>>),
                  Call("draw_indexed", <<0, st.num_indices, 0, 0, 1>>),
                  Call("drop_render_pass", << >>),
                  Call("finish", << >>),
                  Call("submit", << >>),
                  Call("present", << >>) >> ]

\* ------------------------------------------------- run: the event closure
IsExitEvent(event) ==
  \/ event.type = "CloseRequested"
  \/ /\ event.type = "KeyboardInput"
     /\ event.state = "Pressed"
     /\ event.virtual_keycode = "Escape"

\* Event::WindowEvent arm
on_window_event(st, cf, event, rnd) ==
  LET r == input(st, event, rnd)
  IN  IF r.consumed
      THEN [ st |-> r.st, cf |-> cf, calls |-> r.calls, consumed |-> TRUE ]
      ELSE IF IsExitEvent(event)
      THEN [ st |-> r.st, cf |-> "Exit", calls |-> r.calls,
             consumed |-> FALSE ]
      ELSE IF event.type \in { "Resized", "ScaleFactorChanged" }
      THEN LET z == resize(r.st, event.size)
           IN  [ st |-> z.st, cf |-> cf, calls |-> r.calls \o z.calls,
                 consumed |-> FALSE ]
      ELSE [ st |-> r.st, cf |-> cf, calls |-> r.calls, consumed |-> FALSE ]

\* variant: a lost surface is treated as fatal
on_redraw_requested_lost_exits(st, cf, surf, acquire) ==
  LET u == update(st)
      f == render(u, surf, acquire)
  IN  IF f.result = "Ok"
      THEN [ st |-> u, cf |-> cf, calls |-> f.calls ]
      ELSE IF f.result \in { "Lost", "OutOfMemory" }
      THEN [ st |-> u, cf |-> "Exit", calls |-> f.calls ]
      ELSE [ st |-> u, cf |-> cf,
             calls |-> f.calls \o << Call("eprintln", << >>) >> ]

\* variant: the catch-all arm comes before the OutOfMemory arm
on_redraw_requested_oom_reported(st, cf, surf, acquire) ==
  LET u == update(st)
      f == render(u, surf, acquire)
  IN  IF f.result = "Ok"
      THEN [ st |-> u, cf |-> cf, calls |-> f.calls ]
      ELSE IF f.result = "Lost"
      THEN LET z == resize(u, u.size)
           IN  [ st |-> z.st, cf |-> cf, calls |-> f.calls \o z.calls ]
      ELSE [ st |-> u, cf |-> cf,
             calls |-> f.calls \o << Call("eprintln", << >>) >> ]

\* variant: recovery re-applies the size with width and height exchanged
on_redraw_requested_lost_transposes(st, cf, surf, acquire) ==
  LET u == update(st)
      f == render(u, surf, acquire)
  IN  IF f.result = "Ok"
      THEN [ st |-> u, cf |-> cf, calls |-> f.calls ]
      ELSE IF f.result = "Lost"
      THEN LET z == resize(u, [width |-> u.size.height,
                               height |-> u.size.width])
           IN  [ st |-> z.st, cf |-> cf, calls |-> f.calls \o z.calls ]
      ELSE IF f.result = "OutOfMemory"
      THEN [ st |-> u, cf |-> "Exit", calls |-> f.calls ]
      ELSE [ st |-> u, cf |-> cf,
             calls |-> f.calls \o << Call("eprintln", << >>) >> ]

\* variant: every error except OutOfMemory reconfigures the surface
on_redraw_requested_errors_reconfigure(st, cf, surf, acquire) ==
  LET u == update(st)
      f == render(u, surf, acquire)
  IN  IF f.result = "Ok"
      THEN [ st |-> u, cf |-> cf, calls |-> f.calls ]
      ELSE IF f.result = "OutOfMemory"
      THEN [ st |-> u, cf |-> "Exit", calls |-> f.calls ]
      ELSE LET z == resize(u, u.size)
           IN  [ st |-> z.st, cf |-> cf, calls |-> f.calls \o z.calls ]

\* Event::RedrawRequested arm
on_redraw_requested(st, cf, surf, acquire) ==
  LET u == update(st)
      f == render(u, surf, acquire)
  IN  IF f.result = "Ok"
      THEN [ st |-> u, cf |-> cf, calls |-> f.calls ]
      ELSE IF f.result = "Lost"
      THEN LET z == resize(u, u.size)
           IN  [ st |-> z.st, cf |-> cf, calls |-> f.calls \o z.calls ]
      ELSE IF f.result = "OutOfMemory"
      THEN [ st |-> u, cf |-> "Exit", calls |-> f.calls ]
      ELSE [ st |-> u, cf |-> cf,
             calls |-> f.calls \o << Call("eprintln", << >>) >> ]

\* variant: the handler does not ask for a redraw
on_main_events_cleared_silent(st) ==
  [ st |-> st, calls |-> << >> ]

\* Event::MainEventsCleared arm
on_main_events_cleared(st) ==
  [ st |-> st, calls |-> << Call("request_redraw", << >>) >> ]

\* ------------------------------------------------------------------ state
VARIABLES
  state,            \* the State struct
  control_flow,     \* *control_flow of the event loop
  surface,          \* configuration last applied by surface.configure
  running,          \* FALSE once the event loop has returned
  ev,               \* the event handled by the last step
  calls,            \* the outbound calls made while handling ev
  consumed,         \* what State::input returned for ev
  toggle_key_down,  \* the toggle key is physically held
  hold_toggles,     \* toggles since the toggle key last went down; back
                    \* to 0 once the key is released without toggling
  presses,          \* parity of the number of toggle-key presses so far
  last_positive     \* size of the last resize event with both dimensions
                    \* positive, the initial window size before any

vars == << state, control_flow, surface, running, ev, calls,
           consumed, toggle_key_down, hold_toggles, presses,
           last_positive >>

Caps == [formats : FormatLists, present_modes : { <<m>> : m \in PresentModes },
         alpha_modes : { <<m>> : m \in AlphaModes }]

\* the state after State::new, for an adapter reporting one of the given
\* capabilities
InitFrom(capabilities) ==
  \E inner_size \in Sizes, caps \in capabilities :
    LET n == new(inner_size, caps)
    IN  /\ state = n.st
        /\ control_flow = "Poll"
        /\ surface = n.st.config
        /\ running = TRUE
        /\ ev = [type |-> "Init", formats |-> caps.formats]
        /\ calls = n.calls
        /\ consumed = FALSE
        /\ toggle_key_down = FALSE
        /\ hold_toggles = 0
        /\ presses = 0
        /\ last_positive = inner_size

Init == InitFrom(Caps)

\* effects common to every handled event
Effects(event, st2, cf2, cs, cons) ==
  /\ state' = st2
  /\ control_flow' = cf2
  /\ surface' = IF HasCall(cs, "configure") THEN st2.config ELSE surface
  /\ ev' = event
  /\ calls' = cs
  /\ consumed' = cons
  /\ UNCHANGED running

Toggled(st2) == st2.render_pipeline_idx # state.render_pipeline_idx
                \/ st2.index_buffer_idx # state.index_buffer_idx
                \/ st2.num_indices # state.num_indices

Dispatch(event, rnd) ==
  LET h == on_window_event(state, control_flow, event, rnd)
  IN  /\ Effects(event, h.st, h.cf, h.calls, h.consumed)
      /\ presses' = IF IsTogglePress(event) THEN 1 - presses ELSE presses
      /\ last_positive' =
           IF event.type \in { "Resized", "ScaleFactorChanged" }
              /\ event.size.width > 0 /\ event.size.height > 0
           THEN event.size ELSE last_positive

MouseInput ==
  /\ running
  /\ \E button \in { "Left", "Right" }, s \in { "Pressed", "Released" },
        rnd \in [1..3 -> Channel] :
       /\ IsLeftPress([type |-> "MouseInput", button |-> button, state |-> s])
          \/ rnd = [i \in 1..3 |-> 0]
       /\ Dispatch([type |-> "MouseInput", button |-> button, state |-> s],
                   rnd)
  /\ UNCHANGED << toggle_key_down, hold_toggles >>

\* a Pressed event for a key that is already down is a key repeat; winit's
\* KeyboardInput carries no repeat flag
KeyboardInput ==
  /\ running
  /\ \E sc \in Scancodes,
        s \in { "Pressed", "Released" },
        vk \in { "Space", "Escape" } :
       LET event == [type |-> "KeyboardInput", scancode |-> sc, state |-> s,
                     virtual_keycode |-> vk]
           h == on_window_event(state, control_flow, event, <<0, 0, 0>>)
           t == IF Toggled(h.st) THEN 1 ELSE 0
       IN  /\ sc = ToggleScancode /\ s = "Released" => toggle_key_down
           /\ sc = ToggleScancode /\ s = "Pressed" /\ toggle_key_down
                => hold_toggles <= MaxRepeats
           /\ Dispatch(event, <<0, 0, 0>>)
           /\ toggle_key_down' = IF sc = ToggleScancode
                                 THEN s = "Pressed" ELSE toggle_key_down
           /\ hold_toggles' =
                IF sc = ToggleScancode /\ s = "Pressed" /\ ~toggle_key_down
                THEN t
                ELSE IF sc = ToggleScancode /\ s = "Released" /\ t = 0
                THEN 0
                ELSE hold_toggles + t

CloseRequested ==
  /\ running
  /\ Dispatch([type |-> "CloseRequested"], <<0, 0, 0>>)
  /\ UNCHANGED << toggle_key_down, hold_toggles >>

Resized ==
  /\ running
  /\ \E sz \in Sizes :
       Dispatch([type |-> "Resized", size |-> sz], <<0, 0, 0>>)
  /\ UNCHANGED << toggle_key_down, hold_toggles >>

ScaleFactorChanged ==
  /\ running
  /\ \E sz \in Sizes :
       Dispatch([type |-> "ScaleFactorChanged", size |-> sz], <<0, 0, 0>>)
  /\ UNCHANGED << toggle_key_down, hold_toggles >>

\* any other window event (cursor motion, focus, ...)
OtherWindowEvent ==
  /\ running
  /\ Dispatch([type |-> "CursorMoved"], <<0, 0, 0>>)
  /\ UNCHANGED << toggle_key_down, hold_toggles >>

AcquireOutcomes == { "Ok", "Lost", "OutOfMemory", "Timeout", "Outdated" }

RedrawRequested ==
  /\ running
  /\ \E acquire \in AcquireOutcomes :
       LET h == on_redraw_requested(state, control_flow, surface, acquire)
       IN  Effects([type |-> "RedrawRequested", acquire |-> acquire],
                   h.st, h.cf, h.calls, FALSE)
  /\ UNCHANGED << toggle_key_down, hold_toggles, presses, last_positive >>

MainEventsCleared ==
  /\ running
  /\ LET h == on_main_events_cleared(state)
     IN  Effects([type |-> "MainEventsCleared"], h.st, control_flow, h.calls,
                 FALSE)
  /\ UNCHANGED << toggle_key_down, hold_toggles, presses, last_positive >>

\* ControlFlow::Exit makes event_loop.run stop
LoopDestroyed ==
  /\ running
  /\ control_flow = "Exit"
  /\ running' = FALSE
  /\ ev' = [type |-> "LoopDestroyed"]
  /\ calls' = << >>
  /\ consumed' = FALSE
  /\ UNCHANGED << state, control_flow, surface, toggle_key_down,
                  hold_toggles, presses, last_positive >>

Next ==
  \/ MouseInput
  \/ KeyboardInput
  \/ CloseRequested
  \/ Resized
  \/ ScaleFactorChanged
  \/ OtherWindowEvent
  \/ RedrawRequested
  \/ MainEventsCleared
  \/ LoopDestroyed

Spec == Init /\ [][Next]_vars

\* the program started on an adapter that reports any list of formats,
\* among them two sRGB ones
AllFormats == Formats \cup { "Rgba8UnormSrgb" }

AllFormatLists == UNION { [1..n -> AllFormats] : n \in 1..MaxFormats }

AllCaps == [formats : AllFormatLists,
            present_modes : { <<m>> : m \in PresentModes },
            alpha_modes : { <<m>> : m \in AlphaModes }]

FormatSpec == InitFrom(AllCaps) /\ [][Next]_vars

\* event_loop.run cycles for as long as it runs: every iteration delivers
\* MainEventsCleared, whose handler requests a redraw, and a requested
\* redraw is delivered as RedrawRequested in the same iteration
FairSpec ==
  /\ Spec
  /\ WF_vars(MainEventsCleared)
  /\ WF_vars(RedrawRequested)

\* ================================================================ claims
ResizeTypes == { "Resized", "ScaleFactorChanged" }

IsRedraw(e, acquire) == e.type = "RedrawRequested" /\ e.acquire = acquire

IsFailedRedraw(e) == e.type = "RedrawRequested" /\ e.acquire # "Ok"

NoSubmitNoPresent(cs) == ~HasCall(cs, "submit") /\ ~HasCall(cs, "present")

Active(st) == << st.render_pipeline_idx, st.index_buffer_idx, st.num_indices >>

\* position of the first call named op in cs, 0 when there is none
CallPos(cs, op) ==
  IF HasCall(cs, op)
  THEN CHOOSE i \in 1..Len(cs) :
         cs[i].op = op /\ \A j \in 1..(i - 1) : cs[j].op # op
  ELSE 0

CallCount(cs, op) == Cardinality({ i \in 1..Len(cs) : cs[i].op = op })

\* C1: in every reachable state the active pipeline index and the active
\* index-buffer index are the same variant number, and every recorded frame
\* binds the pipeline and the index buffer of one and the same variant.
C1_LockStep ==
  /\ state.render_pipeline_idx = state.index_buffer_idx
  /\ \A i, j \in 1..Len(calls) :
       calls[i].op = "set_pipeline" /\ calls[j].op = "set_index_buffer"
         => calls[i].args[1] = calls[j].args[1]

C1_Witness ==
  /\ IsRedraw(ev, "Ok")
  /\ presses = 1
  /\ HasCall(calls, "set_pipeline")
  /\ HasCall(calls, "set_index_buffer")

\* C2: the active-variant state depends only on the parity of the number of
\* toggle-key presses, so any even number of presses (with any other events
\* interleaved) restores it; one press changes each index to 1 - index.
C2_Involution ==
  /\ [](\A k \in 0..1 :
          presses = k => Active(state) =
                           << k, k, Len(index_buffers[k + 1]) >>)
  /\ [][ IsTogglePress(ev')
           => /\ state'.render_pipeline_idx = 1 - state.render_pipeline_idx
              /\ state'.index_buffer_idx = 1 - state.index_buffer_idx
              /\ presses' = 1 - presses ]_vars

C2_Witness ==
  /\ IsTogglePress(ev)
  /\ presses = 0
  /\ Active(state) = << 0, 0, 9 >>

\* C3: a resize (Resized or ScaleFactorChanged) whose new size has a zero
\* width or height leaves the stored size and the whole surface
\* configuration unchanged, makes no call at all (no surface.configure, no
\* error report) and does not stop the loop.
C3_ZeroResizeNoOp ==
  [][ (ev'.type \in ResizeTypes
       /\ (ev'.size.width = 0 \/ ev'.size.height = 0))
        => /\ state'.size = state.size
           /\ state'.config = state.config
           /\ surface' = surface
           /\ calls' = << >>
           /\ control_flow' = control_flow
           /\ running' ]_vars

C3_Witness ==
  /\ ev.type = "Resized"
  /\ ev.size.width > 0
  /\ ev.size.height = 0
  /\ state.size.width > 0
  /\ state.size.height > 0
  /\ ev.size.width # state.size.width

\* C4: a redraw whose acquire reports Lost submits and presents nothing,
\* does not set Exit, keeps the loop running and keeps the stored size; no
\* event other than a resize changes the stored size; and every redraw
\* whose acquire succeeds runs a full frame on an image of the stored size.
\* Hence the first successful redraw after a loss, with no resize event in
\* between, draws with the width and height stored before the loss.
C4_SurfaceLost ==
  [][ /\ IsRedraw(ev', "Lost")
           => /\ NoSubmitNoPresent(calls')
              /\ control_flow' = control_flow
              /\ running'
              /\ state'.size = state.size
      /\ ev'.type \notin ResizeTypes => state'.size = state.size
      /\ IsRedraw(ev', "Ok")
           => /\ calls'[1] = Call("get_current_texture",
                                  << state.size.width, state.size.height >>)
              /\ CallCount(calls', "draw_indexed") = 1
              /\ CallCount(calls', "submit") = 1
              /\ CallCount(calls', "present") = 1 ]_vars

C4_Witness ==
  /\ IsRedraw(ev, "Lost")
  /\ control_flow = "Poll"
  /\ HasCall(calls, "configure")
  /\ state.size.width = MaxWidth

\* C5: a redraw whose acquire reports OutOfMemory sets the control flow to
\* Exit and submits and presents nothing; a redraw with any other acquire
\* outcome leaves the control flow as it was.
C5_OutOfMemoryExits ==
  [][ ev'.type = "RedrawRequested"
        => /\ ev'.acquire = "OutOfMemory"
                => control_flow' = "Exit" /\ NoSubmitNoPresent(calls')
           /\ ev'.acquire # "OutOfMemory"
                => control_flow' = control_flow ]_vars

C5_Witness ==
  /\ IsRedraw(ev, "OutOfMemory")
  /\ control_flow = "Exit"
  /\ running

\* C6: a redraw whose acquire fails (Lost, OutOfMemory or any other error)
\* leaves clear color, pipeline index, index-buffer index, index count,
\* stored size and surface configuration as they were, so the frame a
\* successful acquire would record afterwards is the frame it would have
\* recorded before.
C6_FailedFrameKeepsState ==
  [][ IsFailedRedraw(ev')
        => /\ state'.color = state.color
           /\ Active(state') = Active(state)
           /\ state'.size = state.size
           /\ state'.config = state.config
           /\ surface' = surface
           /\ render(state', surface', "Ok") = render(state, surface, "Ok")
    ]_vars

C6_Witness ==
  /\ IsRedraw(ev, "Timeout")
  /\ HasCall(calls, "eprintln")
  /\ state.index_buffer_idx = 1
  /\ state.color.a = ColorOne
  /\ state.color.r < ColorOne

\* C7: a successful render makes, exactly once each and in this order, the
\* calls acquire, begin pass (clearing to the current color), set pipeline
\* (active one), set bind group (slot 0), set vertex buffer, set index
\* buffer (active one, 16-bit), draw_indexed over [0, num_indices) with one
\* instance, end pass, finish, submit, present; a failed acquire is
\* followed by neither submit nor present.
FrameOps ==
  << "get_current_texture", "begin_render_pass", "set_pipeline",
     "set_bind_group", "set_vertex_buffer", "set_index_buffer",
     "draw_indexed", "drop_render_pass", "finish", "submit", "present" >>

IsFrameOp(c) == \E k \in 1..Len(FrameOps) : FrameOps[k] = c.op

C7_FrameOrder ==
  ev.type = "RedrawRequested"
    => IF ev.acquire = "Ok"
       THEN LET f == SelectSeq(calls, IsFrameOp)
            IN  /\ Len(f) = Len(FrameOps)
                /\ \A k \in 1..Len(FrameOps) : f[k].op = FrameOps[k]
                /\ f[2].args = << state.color.r, state.color.g,
                                  state.color.b, state.color.a >>
                /\ f[3].args = << state.render_pipeline_idx >>
                /\ f[4].args = << 0 >>
                /\ f[6].args = << state.index_buffer_idx, 16 >>
                /\ f[7].args = << 0, state.num_indices, 0, 0, 1 >>
                /\ CallPos(calls, "drop_render_pass")
                     < CallPos(calls, "finish")
                /\ CallPos(calls, "submit") < CallPos(calls, "present")
       ELSE NoSubmitNoPresent(calls)

C7_Witness ==
  /\ IsRedraw(ev, "Ok")
  /\ Len(calls) > Len(FrameOps)
  /\ calls[Len(calls)].op = "present"
  /\ state.color.g = 0

\* C8: the variant is toggled only on the press edge of the toggle key: at
\* most one toggle is made from the moment the key goes down until it goes
\* down again (none on release, none on repeat), and exactly one while the
\* key is held.
C8_EdgeTriggered ==
  /\ hold_toggles <= 1
  /\ toggle_key_down => hold_toggles = 1

\* C9: num_indices is always the length of the index list selected by
\* index_buffer_idx (9 at index 0, 15 at index 1); the initial state has
\* pipeline index 0 and count 9, and a toggle-key press made there gives
\* pipeline index 1 and count 15.
C9_IndexCount ==
  /\ state.render_pipeline_idx = 0 /\ state.num_indices = 9
  /\ [](/\ Len(index_buffers[1]) = 9
        /\ Len(index_buffers[2]) = 15
        /\ state.index_buffer_idx \in 0..1
        /\ state.num_indices = Len(index_buffers[state.index_buffer_idx + 1]))
  /\ [][ (IsTogglePress(ev') /\ state.render_pipeline_idx = 0
          /\ state.num_indices = 9)
           => state'.render_pipeline_idx = 1 /\ state'.num_indices = 15 ]_vars

C9_Witness ==
  /\ IsTogglePress(ev)
  /\ presses = 1
  /\ state.render_pipeline_idx = 1
  /\ state.num_indices = 15

\* C10: the two active indices are valid positions in render_pipelines and
\* index_buffers, the drawn range [0, num_indices) lies within the bound
\* index buffer, and every index in it names one of the ten vertices; the
\* same holds of the arguments of every recorded draw.
C10_NoOutOfRangeDraw ==
  /\ state.render_pipeline_idx \in 0..(Len(render_pipelines) - 1)
  /\ state.index_buffer_idx \in 0..(Len(index_buffers) - 1)
  /\ Len(render_pipelines) = 2
  /\ Len(index_buffers) = 2
  /\ Len(VERTICES) = 10
  /\ LET buf == index_buffers[state.index_buffer_idx + 1]
     IN  /\ state.num_indices <= Len(buf)
         /\ \A k \in 1..state.num_indices :
              buf[k] >= 0 /\ buf[k] < Len(VERTICES)
  /\ \A i \in 1..Len(calls) :
       calls[i].op = "draw_indexed"
         => LET b == calls[CallPos(calls, "set_index_buffer")].args[1]
            IN  /\ b \in 0..(Len(index_buffers) - 1)
                /\ calls[i].args[1] = 0
                /\ calls[i].args[2] <= Len(index_buffers[b + 1])

C10_Witness ==
  /\ IsRedraw(ev, "Ok")
  /\ \E i \in 1..Len(calls) :
       calls[i].op = "draw_indexed" /\ calls[i].args[2] = 15
  /\ state.index_buffer_idx = 1

\* C11: the clear color's alpha is 1.0 in every reachable state, and right
\* after a left pointer-button press red, green and blue each lie in [0,1),
\* the event was reported consumed and request_redraw was called.
C11_ClearColor ==
  /\ state.color.a = ColorOne
  /\ IsLeftPress(ev)
       => /\ state.color.r >= 0 /\ state.color.r < ColorOne
          /\ state.color.g >= 0 /\ state.color.g < ColorOne
          /\ state.color.b >= 0 /\ state.color.b < ColorOne
          /\ consumed
          /\ HasCall(calls, "request_redraw")

C11_Witness ==
  /\ IsLeftPress(ev)
  /\ consumed
  /\ state.color.b < ColorOne
  /\ calls = << Call("request_redraw", << >>) >>

\* C12: State::input reports an event consumed exactly when it is a left
\* pointer-button press or a toggle-key press; an event that is not
\* consumed leaves clear color and active variant unchanged; every close
\* request and every Escape press sets the control flow to Exit, and every
\* resize event reaches State::resize (a positive size is stored and
\* configured).
WindowEventTypes ==
  { "MouseInput", "KeyboardInput", "CloseRequested", "Resized",
    "ScaleFactorChanged", "CursorMoved" }

IsEscapePress(e) ==
  /\ e.type = "KeyboardInput"
  /\ e.state = "Pressed"
  /\ e.virtual_keycode = "Escape"

C12_ConsumedAndDefaults ==
  /\ [](ev.type \in WindowEventTypes
          => (consumed <=> (IsLeftPress(ev) \/ IsTogglePress(ev))))
  /\ [](ev.type = "CloseRequested" \/ IsEscapePress(ev)
          => control_flow = "Exit")
  /\ []((ev.type \in ResizeTypes /\ ev.size.width > 0 /\ ev.size.height > 0)
          => state.size = ev.size /\ HasCall(calls, "configure"))
  /\ [][ (ev'.type \in WindowEventTypes /\ ~consumed')
           => state'.color = state.color /\ Active(state') = Active(state)
     ]_vars

\* C13: every surface.configure call (in State::new, in State::resize, in
\* surface-loss recovery) is made with width > 0 and height > 0.
C13_ConfigurePositive ==
  \A i \in 1..Len(calls) :
    calls[i].op = "configure"
      => calls[i].args[1] > 0 /\ calls[i].args[2] > 0

\* C14: whenever an acquire reports Lost, the handler issues a
\* surface.configure call with exactly the stored configuration.
C14_LostReconfigures ==
  IsRedraw(ev, "Lost")
    => /\ HasCall(calls, "configure")
       /\ \A i \in 1..Len(calls) :
            calls[i].op = "configure"
              => calls[i].args = << state.config.width, state.config.height >>
       /\ surface = state.config

\* C15: a redraw whose acquire reports an error other than Lost or
\* OutOfMemory reports it, submits and presents nothing, does not
\* reconfigure the surface, leaves the control flow and the loop as they
\* were, and leaves a further redraw possible.
IsOtherError(e) ==
  e.type = "RedrawRequested" /\ e.acquire \notin { "Ok", "Lost", "OutOfMemory" }

C15_OtherErrorSkipsFrame ==
  /\ [][ IsOtherError(ev')
           => /\ HasCall(calls', "eprintln")
              /\ NoSubmitNoPresent(calls')
              /\ ~HasCall(calls', "configure")
              /\ surface' = surface
              /\ control_flow' = control_flow
              /\ running' ]_vars
  /\ [](IsOtherError(ev) => ENABLED RedrawRequested)

C15_Witness ==
  /\ IsRedraw(ev, "Outdated")
  /\ control_flow = "Poll"
  /\ running
  /\ state.size.width > 0
  /\ state.size.height > 0
  /\ calls[Len(calls)].op = "eprintln"

\* C16: after any sequence of events the stored size and the width and
\* height of the surface configuration (stored and applied) are those of
\* the last resize event whose width and height are both positive, or of
\* the initial window size when there was none; resize events with a zero
\* dimension leave no trace.
C16_LastPositiveResizeWins ==
  /\ state.size = last_positive
  /\ state.config.width = last_positive.width
  /\ state.config.height = last_positive.height
  /\ surface.width = last_positive.width
  /\ surface.height = last_positive.height

C16_Witness ==
  /\ ev.type = "Resized"
  /\ ev.size.width = 0
  /\ ev.size.height = 0
  /\ last_positive.width = MaxWidth
  /\ last_positive.height > 0
  /\ calls = << >>

\* C17: every event that changes visible state (left pointer press, toggle
\* key press, resize with positive dimensions) is eventually followed by a
\* request_redraw call and by a redraw whose acquire succeeds, which
\* renders the changed state.
VisibleChange ==
  \/ IsLeftPress(ev)
  \/ IsTogglePress(ev)
  \/ ev.type \in ResizeTypes /\ ev.size.width > 0 /\ ev.size.height > 0

RendersCurrentState ==
  IsRedraw(ev, "Ok")
    => /\ calls[1].args = << state.size.width, state.size.height >>
       /\ \A i \in 1..Len(calls) :
            /\ calls[i].op = "begin_render_pass"
                 => calls[i].args = << state.color.r, state.color.g,
                                       state.color.b, state.color.a >>
            /\ calls[i].op = "set_pipeline"
                 => calls[i].args = << state.render_pipeline_idx >>
            /\ calls[i].op = "draw_indexed"
                 => calls[i].args[2] = state.num_indices

C18_SingleWriter ==
  [][ /\ ~IsTogglePress(ev') => Active(state') = Active(state)
      /\ ~IsLeftPress(ev') => state'.color = state.color ]_vars

C18_Witness ==
  /\ IsLeftPress(ev)
  /\ state.color.r < ColorOne
  /\ Active(state) = << 1, 1, 15 >>
  /\ ~toggle_key_down

\* C19: no step changes the format, present mode or alpha mode of the
\* surface configuration (stored or applied) or the pipelines, and in
\* every reachable state the format both pipelines were built with is the
\* format of the current surface configuration.
C19_FormatFixed ==
  /\ [][ /\ state'.config.format = state.config.format
         /\ state'.config.present_mode = state.config.present_mode
         /\ state'.config.alpha_mode = state.config.alpha_mode
         /\ state'.render_pipelines = state.render_pipelines ]_vars
  /\ [](/\ \A i \in 1..Len(state.render_pipelines) :
             state.render_pipelines[i].format = state.config.format
        /\ Len(state.render_pipelines) = 2
        /\ surface.format = state.config.format
        /\ surface.present_mode = state.config.present_mode
        /\ surface.alpha_mode = state.config.alpha_mode)

C19_Witness ==
  /\ ev.type = "ScaleFactorChanged"
  /\ HasCall(calls, "configure")
  /\ state.config.format = "Bgra8Unorm"
  /\ state.render_pipelines[2].format = "Bgra8Unorm"
  /\ state.config.width = MaxWidth

\* C20: for every non-empty reported list of formats, the format State::new
\* puts in the configuration is the element at the lowest position holding
\* an sRGB format, and the first element when the list holds none.
C20_FirstSrgbFormat ==
  ev.type = "Init"
    => LET fs == ev.formats
           S  == { i \in 1..Len(fs) : srgb(fs[i]) }
       IN  /\ Len(fs) >= 1
           /\ S # {} => \E i \in S : /\ \A j \in S : i <= j
                                     /\ state.config.format = fs[i]
           /\ S = {} => state.config.format = fs[1]

C20_Witness ==
  /\ ev.type = "Init"
  /\ Len(ev.formats) >= 2
  /\ ~srgb(ev.formats[1])
  /\ srgb(ev.formats[2])
  /\ state.config.format = ev.formats[2]

\* C21: in every reachable state the width and height of the surface
\* configuration are the stored window size, whatever resizes (zero or
\* positive), scale-factor changes and surface-loss recoveries came before;
\* the configuration applied to the surface agrees with both.
C21_ConfigMatchesSize ==
  /\ state.config.width = state.size.width
  /\ state.config.height = state.size.height
  /\ surface.width = state.size.width
  /\ surface.height = state.size.height

C21_Witness ==
  /\ IsRedraw(ev, "Lost")
  /\ calls[Len(calls)] = Call("configure",
                              << state.size.width, state.size.height >>)
  /\ state.size.width < MaxWidth
  /\ state.config.height = MaxHeight

====
